---------------------------- MODULE Spec2Model ----------------------------
(***************************************************************************)
(* IFC-to-graph importer: the Graph Writer (Neo4jDatabase and              *)
(* FalkorDBDatabase), the converter (convert_file, convert_directory) and  *)
(* the batch driver (main), over a property graph store.                   *)
(*                                                                         *)
(* The graph store is modelled by what the Cypher statements of the        *)
(* writers do to it: MERGE on a node pattern matches on every label and    *)
(* property of the pattern, MATCH ... MERGE on an edge pattern yields one  *)
(* row per matched pair of endpoint nodes.                                 *)
(***************************************************************************)
EXTENDS Integers, Sequences, FiniteSets, TLC

\* ------------------------------------------------------------------ bounds
MaxCalls == 2        \* writer operations in one history of SpecWriter
MaxChildren == 2     \* endpoints in the list of a multi-endpoint relationship
MaxFiles == 3        \* files matched in one input directory
MaxFaults == 1       \* Graph Writer calls hit by a database error in one run of main

\* --------------------------------------------------------------- universes
Backends == {"neo4j", "falkordb"}
NoId == "none"                               \* Python None / empty string
GIDs == {"g1", "g2", "g3"}                   \* element global identifiers
Classes == {"IfcWall", "IfcSlab"}            \* ifcClass values (is_a())
RelIds == {"r1", "r2"}                       \* relationship global identifiers
RelTypes == {"AGGREGATES", "CONNECTS_TO", "HAS_PROPERTY", "CONTAINED_IN", "ASSIGNED_TO"}
MultiTypes == {"AGGREGATES", "CONTAINED_IN", "ASSIGNED_TO"}
FaultKinds == {"none", "connection", "other"} \* outcome of one database call

\* ------------------------------------------------------------- graph store
\* graph.files   : IFCFile nodes, [fileId, importDate]
\* graph.elems   : Element nodes, [gid, cls, src]; labels are {Element, cls}
\* graph.belongs : BELONGS_TO_FILE edges, [gid, cls, fileId]
\* graph.rels    : typed edges, [type, from, to, rid], from/to = <<gid, cls>>
EmptyGraph == [files |-> {}, elems |-> {}, belongs |-> {}, rels |-> {}]

NodeCount(g) == Cardinality(g.files) + Cardinality(g.elems)
EdgeCount(g) == Cardinality(g.belongs) + Cardinality(g.rels)

\* MATCH (x:Element {globalId: id})
MatchElementUnwritten(g, id) == {[gid |-> id, cls |-> c, src |-> NoId] : c \in Classes}
MatchElement(g, id) == {n \in g.elems : n.gid = id}

\* MERGE (f:IFCFile {fileId: $fileId}) SET f.importDate = ...
MergeFileNodeReplaceAll(files, fid, now) == {[fileId |-> fid, importDate |-> now]}
MergeFileNodeAlwaysCreate(files, fid, now) ==
    files \cup {[fileId |-> fid, importDate |-> now]}
MergeFileNode(files, fid, now) ==
    {f \in files : f.fileId # fid} \cup {[fileId |-> fid, importDate |-> now]}

\* MERGE (e:Element:<cls> {globalId: $globalId}) SET e += props
\* The pattern carries both labels, so a node of the same globalId with
\* another class label does not match and a new node is created.
MergeElementNode(elems, gid, cls, fid) ==
    LET old == {n \in elems : n.gid = gid /\ n.cls = cls}
        src == IF fid # NoId THEN fid
               ELSE IF old = {} THEN NoId ELSE (CHOOSE n \in old : TRUE).src
    IN  (elems \ old) \cup {[gid |-> gid, cls |-> cls, src |-> src]}

\* WITH e MATCH (f:IFCFile {fileId: $fileId}) MERGE (e)-[:BELONGS_TO_FILE]->(f)
MatchFile(g, fid) == {f \in g.files : f.fileId = fid}
MergeBelongsNothing(belongs, gid, cls, fid) == belongs
MergeBelongs(belongs, gid, cls, fid) ==
    belongs \cup {[gid |-> gid, cls |-> cls, fileId |-> fid]}

\* MATCH (from:Element {globalId}) MATCH (to:Element {globalId})
\* MERGE (from)-[r:<type>]->(to) SET r.globalId = $rel_id RETURN r
PairRowsUnmatched(g, from_id, to_id) ==
    {<<[gid |-> from_id, cls |-> c, src |-> NoId], [gid |-> to_id, cls |-> d, src |-> NoId]>> :
        c \in Classes, d \in Classes}
PairRows(g, from_id, to_id) == MatchElement(g, from_id) \X MatchElement(g, to_id)
NodeKey(n) == <<n.gid, n.cls>>
MergeEdgesCreate(g, type, from_id, to_id, rel_id) ==
    LET rows == PairRows(g, from_id, to_id)
        keys == {<<NodeKey(r[1]), NodeKey(r[2])>> : r \in rows}
        new  == {[type |-> type, from |-> k[1], to |-> k[2], rid |-> rel_id] : k \in keys}
    IN  [g EXCEPT !.rels = @ \cup new]
MergeEdgesOnCreate(g, type, from_id, to_id, rel_id) ==
    LET rows == PairRows(g, from_id, to_id)
        keys == {<<NodeKey(r[1]), NodeKey(r[2])>> : r \in rows}
        old  == {<<e.from, e.to>> : e \in {x \in g.rels : x.type = type}}
        new  == {[type |-> type, from |-> k[1], to |-> k[2], rid |-> rel_id] : k \in keys \ old}
    IN  [g EXCEPT !.rels = @ \cup new]
MergeEdges(g, type, from_id, to_id, rel_id) ==
    LET rows == PairRows(g, from_id, to_id)
        keys == {<<NodeKey(r[1]), NodeKey(r[2])>> : r \in rows}
        kept == {e \in g.rels : ~(e.type = type /\ <<e.from, e.to>> \in keys)}
        new  == {[type |-> type, from |-> k[1], to |-> k[2], rid |-> rel_id] : k \in keys}
    IN  [g EXCEPT !.rels = kept \cup new]


\* ------------------------------------------------------------ Graph Writer
\* An operation's outcome: the graph it leaves, its return value (ok: the
\* boolean result, or "an identifier was returned"; value: the identifier;
\* stats: the statistics), and what it did on the wire: issued = queries
\* sent, created = indices of the endpoint pairs whose query returned a row,
\* tried = indices of the endpoint pairs whose query was attempted,
\* err = kind of the first database error met ("none": no call raised),
\* reconnects = connect() calls made by the operation, propagated = an
\* exception left the operation.
NoStats == [total_nodes |-> 0, total_relationships |-> 0, labels |-> FALSE]
Outcome(g, ok, value, issued, tried, created, err) ==
    [graph |-> g, ok |-> ok, value |-> value, stats |-> NoStats,
     issued |-> issued, tried |-> tried, created |-> created, err |-> err,
     reconnects |-> 0, propagated |-> FALSE]

\* self.driver / self.graph: None before connect() and (FalkorDB) after
\* close(); a closed Neo4j driver either refuses the session or still serves
\* it, depending on the driver version (closedServes).
Usable(b, conn, closedServes) ==
    \/ conn = "open"
    \/ conn = "closed" /\ b = "neo4j" /\ closedServes

\* The first error of a one-query operation: an unusable handle gives an
\* AttributeError (None) or a driver error, else the query's, else commit's.
ErrOf(usable, fault, commit) ==
    IF ~usable THEN "other" ELSE IF fault # "none" THEN fault ELSE commit

\* Neo4j: the write runs in a managed transaction; an error in tx.run or a
\* failed commit rolls every statement of the transaction back.
TxCommits(b, commit) == b = "falkordb" \/ commit = "none"

create_file_node_unwritten(b, g, usable, fid, now, fault, commit) ==
    IF usable /\ fault = "none" /\ TxCommits(b, commit)
    THEN Outcome(g, TRUE, fid, 1, {}, {}, "none")
    ELSE Outcome(g, FALSE, NoId, IF usable THEN 1 ELSE 0, {}, {},
                 ErrOf(usable, fault, commit))
create_file_node_retry(b, g, usable, fid, now, fault, commit) ==
    IF usable /\ fault = "none" /\ TxCommits(b, commit)
    THEN Outcome([g EXCEPT !.files = MergeFileNode(g.files, fid, now)],
                 TRUE, fid, 1, {}, {}, "none")
    ELSE [Outcome(g, FALSE, NoId, IF usable THEN 2 ELSE 0, {}, {},
                  ErrOf(usable, fault, commit))
            EXCEPT !.reconnects = 1]
create_file_node(b, g, usable, fid, now, fault, commit) ==
    IF usable /\ fault = "none" /\ TxCommits(b, commit)
    THEN Outcome([g EXCEPT !.files = MergeFileNode(g.files, fid, now)],
                 TRUE, fid, 1, {}, {}, "none")
    ELSE Outcome(g, FALSE, NoId, IF usable THEN 1 ELSE 0, {}, {},
                 ErrOf(usable, fault, commit))

create_element_node_unchecked(b, g, usable, gid, cls, fid, fault, commit) ==
    Outcome(g, TRUE, gid, IF usable THEN 1 ELSE 0, {}, {}, ErrOf(usable, fault, commit))
create_element_node(b, g, usable, gid, cls, fid, fault, commit) ==
    IF usable /\ fault = "none" /\ TxCommits(b, commit)
    THEN LET merged == [g EXCEPT !.elems = MergeElementNode(g.elems, gid, cls, fid)]
         IN  IF fid = NoId
             THEN Outcome(merged, TRUE, gid, 1, {}, {}, "none")
             ELSE IF MatchFile(g, fid) = {}
                  THEN Outcome(merged, FALSE, gid, 1, {}, {}, "none")
                  ELSE Outcome([merged EXCEPT !.belongs = MergeBelongs(g.belongs, gid, cls, fid)],
                               TRUE, gid, 1, {}, {}, "none")
    ELSE Outcome(g, FALSE, gid, IF usable THEN 1 ELSE 0, {}, {},
                 ErrOf(usable, fault, commit))


\* The loop over the endpoint pairs of one relationship record. Each pass
\* runs the MATCH/MATCH/MERGE/SET query for pairs[i]. guarded = the query
\* sits in a try/except inside the loop (FalkorDB helpers): the error is
\* logged and the loop goes on; unguarded (Neo4j helpers), the error leaves
\* the loop.
LoopStart(g) ==
    [graph |-> g, issued |-> 0, tried |-> {}, created |-> {}, err |-> "none",
     raised |-> FALSE]
RECURSIVE PairLoop(_, _, _, _, _, _, _, _)
PairLoop(guarded, acc, type, rel_id, pairs, faults, usable, i) ==
    IF i > Len(pairs) THEN acc
    ELSE IF ~usable \/ faults[i] # "none"
         THEN LET failed == [acc EXCEPT !.tried = @ \cup {i},
                                        !.issued = @ + (IF usable THEN 1 ELSE 0),
                                        !.err = IF @ # "none" THEN @
                                                ELSE IF usable THEN faults[i] ELSE "other"]
              IN  IF guarded
                  THEN PairLoop(guarded, failed, type, rel_id, pairs, faults, usable, i + 1)
                  ELSE [failed EXCEPT !.raised = TRUE]
         ELSE LET rows == PairRows(acc.graph, pairs[i][1], pairs[i][2])
                  done == [acc EXCEPT
                             !.graph = MergeEdges(acc.graph, type, pairs[i][1], pairs[i][2], rel_id),
                             !.tried = @ \cup {i},
                             !.issued = @ + 1,
                             !.created = IF rows # {} THEN @ \cup {i} ELSE @]
              IN  PairLoop(guarded, done, type, rel_id, pairs, faults, usable, i + 1)

\* The endpoint pairs of a record, in the order its helper writes them.
OneToMany(from_id, to_ids) == [i \in 1..Len(to_ids) |-> <<from_id, to_ids[i]>>]
ManyToOne(from_ids, to_id) == [i \in 1..Len(from_ids) |-> <<from_ids[i], to_id>>]
Pairs(rel) ==
    IF rel.type = "AGGREGATES" THEN OneToMany(rel.from_element, rel.to_elements)
    ELSE IF rel.type = "CONNECTS_TO" THEN <<<<rel.from_element, rel.to_element>>>>
    ELSE IF rel.type = "HAS_PROPERTY" THEN ManyToOne(rel.from_elements, rel.to_property)
    ELSE IF rel.type = "CONTAINED_IN" THEN ManyToOne(rel.from_elements, rel.to_structure)
    ELSE ManyToOne(rel.from_elements, rel.to_group)

\* "if not from_id or not to_ids: return False"
Refused(acc) == [ok |-> FALSE, loop |-> acc]
Counted(loop) == [ok |-> loop.created # {}, loop |-> loop]

\* --- Neo4jDatabase helpers (run inside the managed transaction)
neo4j_create_aggregates_relationship(g, usable, rel, faults) ==
    IF rel.from_element = NoId \/ rel.to_elements = <<>> THEN Refused(LoopStart(g))
    ELSE Counted(PairLoop(FALSE, LoopStart(g), "AGGREGATES", rel.globalId,
                          OneToMany(rel.from_element, rel.to_elements), faults, usable, 1))

neo4j_create_connects_relationship(g, usable, rel, faults) ==
    IF rel.from_element = NoId \/ rel.to_element = NoId THEN Refused(LoopStart(g))
    ELSE Counted(PairLoop(FALSE, LoopStart(g), "CONNECTS_TO", rel.globalId,
                          <<<<rel.from_element, rel.to_element>>>>, faults, usable, 1))

neo4j_create_property_relationship(g, usable, rel, faults) ==
    [ok |-> TRUE, loop |-> LoopStart(g)]

neo4j_create_spatial_relationship(g, usable, rel, faults) ==
    IF rel.from_elements = <<>> \/ rel.to_structure = NoId THEN Refused(LoopStart(g))
    ELSE Counted(PairLoop(FALSE, LoopStart(g), "CONTAINED_IN", rel.globalId,
                          ManyToOne(rel.from_elements, rel.to_structure), faults, usable, 1))

neo4j_create_group_relationship(g, usable, rel, faults) ==
    IF rel.from_elements = <<>> \/ rel.to_group = NoId THEN Refused(LoopStart(g))
    ELSE Counted(PairLoop(FALSE, LoopStart(g), "ASSIGNED_TO", rel.globalId,
                          ManyToOne(rel.from_elements, rel.to_group), faults, usable, 1))

neo4j_create_relationship_tx(g, usable, rel, faults) ==
    IF rel.type = "AGGREGATES" THEN neo4j_create_aggregates_relationship(g, usable, rel, faults)
    ELSE IF rel.type = "CONNECTS_TO" THEN neo4j_create_connects_relationship(g, usable, rel, faults)
    ELSE IF rel.type = "HAS_PROPERTY" THEN neo4j_create_property_relationship(g, usable, rel, faults)
    ELSE IF rel.type = "CONTAINED_IN" THEN neo4j_create_spatial_relationship(g, usable, rel, faults)
    ELSE IF rel.type = "ASSIGNED_TO" THEN neo4j_create_group_relationship(g, usable, rel, faults)
    ELSE Refused(LoopStart(g))

\* Neo4jDatabase.create_relationship: session + execute_write. With no
\* driver the session cannot be opened and nothing is tried. An error raised
\* in the transaction function is caught there (False), the commit of the
\* failed transaction raises and everything it wrote is rolled back.
neo4j_create_relationship(g, usable, rel, faults, commit) ==
    IF ~usable THEN Outcome(g, FALSE, rel.globalId, 0, {}, {}, "other")
    ELSE LET r == neo4j_create_relationship_tx(g, usable, rel, faults)
         IN  IF r.loop.raised
             THEN Outcome(g, FALSE, rel.globalId, r.loop.issued, r.loop.tried, {}, r.loop.err)
             ELSE IF commit # "none"
             THEN Outcome(g, FALSE, rel.globalId, r.loop.issued, r.loop.tried, {}, commit)
             ELSE Outcome(r.loop.graph, r.ok, rel.globalId, r.loop.issued, r.loop.tried,
                          r.loop.created, "none")

\* --- FalkorDBDatabase helpers (each query is its own implicit transaction)
falkordb_create_aggregates_relationship(g, usable, rel, faults) ==
    IF rel.from_element = NoId \/ rel.to_elements = <<>> THEN Refused(LoopStart(g))
    ELSE Counted(PairLoop(TRUE, LoopStart(g), "AGGREGATES", rel.globalId,
                          OneToMany(rel.from_element, rel.to_elements), faults, usable, 1))

\* "return result.result_set is not None": a query that matched no endpoint
\* returns an empty list, which is not None.
falkordb_create_connects_relationship(g, usable, rel, faults) ==
    IF rel.from_element = NoId \/ rel.to_element = NoId THEN Refused(LoopStart(g))
    ELSE LET loop == PairLoop(TRUE, LoopStart(g), "CONNECTS_TO", rel.globalId,
                              <<<<rel.from_element, rel.to_element>>>>, faults, usable, 1)
         IN  [ok |-> loop.err = "none", loop |-> loop]

falkordb_create_property_relationship(g, usable, rel, faults) ==
    IF rel.from_elements = <<>> \/ rel.to_property = NoId THEN Refused(LoopStart(g))
    ELSE Counted(PairLoop(TRUE, LoopStart(g), "HAS_PROPERTY", rel.globalId,
                          ManyToOne(rel.from_elements, rel.to_property), faults, usable, 1))

falkordb_create_spatial_relationship(g, usable, rel, faults) ==
    IF rel.from_elements = <<>> \/ rel.to_structure = NoId THEN Refused(LoopStart(g))
    ELSE Counted(PairLoop(TRUE, LoopStart(g), "CONTAINED_IN", rel.globalId,
                          ManyToOne(rel.from_elements, rel.to_structure), faults, usable, 1))

falkordb_create_group_relationship(g, usable, rel, faults) ==
    IF rel.from_elements = <<>> \/ rel.to_group = NoId THEN Refused(LoopStart(g))
    ELSE Counted(PairLoop(TRUE, LoopStart(g), "ASSIGNED_TO", rel.globalId,
                          ManyToOne(rel.from_elements, rel.to_group), faults, usable, 1))

falkordb_create_relationship(g, usable, rel, faults, commit) ==
    LET r == IF rel.type = "AGGREGATES" THEN falkordb_create_aggregates_relationship(g, usable, rel, faults)
             ELSE IF rel.type = "CONNECTS_TO" THEN falkordb_create_connects_relationship(g, usable, rel, faults)
             ELSE IF rel.type = "HAS_PROPERTY" THEN falkordb_create_property_relationship(g, usable, rel, faults)
             ELSE IF rel.type = "CONTAINED_IN" THEN falkordb_create_spatial_relationship(g, usable, rel, faults)
             ELSE IF rel.type = "ASSIGNED_TO" THEN falkordb_create_group_relationship(g, usable, rel, faults)
             ELSE Refused(LoopStart(g))
    IN  Outcome(r.loop.graph, r.ok, rel.globalId, r.loop.issued, r.loop.tried,
                r.loop.created, r.loop.err)

create_relationship(b, g, usable, rel, faults, commit) ==
    IF b = "neo4j" THEN neo4j_create_relationship(g, usable, rel, faults, commit)
    ELSE falkordb_create_relationship(g, usable, rel, faults, commit)

\* clear_database: MATCH (n) DETACH DELETE n, auto-committed.
clear_database_unwrapped(b, g, usable, fault) ==
    IF usable /\ fault = "none"
    THEN Outcome(EmptyGraph, TRUE, NoId, 1, {}, {}, "none")
    ELSE [Outcome(g, FALSE, NoId, IF usable THEN 1 ELSE 0, {}, {}, ErrOf(usable, fault, "none"))
            EXCEPT !.propagated = TRUE]
clear_database(b, g, usable, fault) ==
    IF usable /\ fault = "none"
    THEN Outcome(EmptyGraph, TRUE, NoId, 1, {}, {}, "none")
    ELSE Outcome(g, FALSE, NoId, IF usable THEN 1 ELSE 0, {}, {}, ErrOf(usable, fault, "none"))

\* get_stats (Neo4j) / get_statistics (FalkorDB). first = index of the first
\* of the statistics queries that raises (0: none): 1 node count, 2 edge
\* count, 3.. the per-label / per-type counts. Neo4j runs the label counts
\* under a bare "except: pass" and still returns the two totals; any other
\* error gives the zero statistics (Neo4j) or the empty dict (FalkorDB).
\* fault = "interrupt" is a KeyboardInterrupt raised in that query: the bare
\* except catches it like any error, "except Exception" does not.
StatQueries == 4
get_stats(b, g, usable, first, fault) ==
    LET totals == [total_nodes |-> NodeCount(g), total_relationships |-> EdgeCount(g),
                   labels |-> TRUE]
    IN  IF ~usable
        THEN Outcome(g, FALSE, NoId, 0, {}, {}, "other")
        ELSE IF first = 0
        THEN [Outcome(g, TRUE, NoId, StatQueries, {}, {}, "none") EXCEPT !.stats = totals]
        ELSE IF b = "neo4j" /\ first > 2
        THEN [Outcome(g, TRUE, NoId, first, {}, {}, fault)
                EXCEPT !.stats = [totals EXCEPT !.labels = FALSE]]
        ELSE IF fault = "interrupt"
        THEN [Outcome(g, FALSE, NoId, first, {}, {}, fault) EXCEPT !.propagated = TRUE]
        ELSE Outcome(g, FALSE, NoId, first, {}, {}, fault)


\* ------------------------------------------------------------------- state
VARIABLES
    backend,    \* which Graph Writer the importer was built with
    graph,      \* the graph store
    conn,       \* the writer's handle: "new" (None), "open", "failed", "closed"
    now,        \* logical clock behind datetime.now()
    last,       \* the last Graph Writer call and its outcome
    calls,      \* Graph Writer calls made so far (SpecWriter)
    pc,         \* the batch driver's position in main
    setup,      \* what main found: "none" (not looked yet), "ok", "no_env", "no_dir"
    answer,     \* ghost: the last answer given at the --clear-db prompt
    args,       \* parsed command line
    ifc_files,  \* the files matched in the input directory
    results,    \* convert_directory's results, one entry per file done
    file_id,    \* convert_file's file_id
    pos,        \* index of the next record of the current file to write
    counts,     \* element_success_count, relationship_success_count
    exitCode,   \* what main returned (-1: still running)
    faults,     \* Graph Writer calls hit by a database error in this run
    clean,      \* ghost: no database error has hit the current convert_file
    imports,    \* ghost: the last two finished convert_file calls
    parsed,     \* the IFC parser: the source items read and the records extracted
    qtool       \* the query tool: connection, attempts made, result returned

driverVars == <<pc, setup, answer, args, ifc_files, results, file_id, pos, counts, exitCode,
                faults, clean, imports, parsed, qtool>>
vars == <<backend, graph, conn, now, last, calls, pc, setup, answer, args,
          ifc_files,
          results, file_id, pos, counts, exitCode, faults, clean, imports, parsed, qtool>>

NoArgs == [clear_db |-> FALSE, force_clear |-> FALSE, stats |-> FALSE]
NoCall == [op |-> "none", arg |-> NoId, usable |-> FALSE,
           out |-> Outcome(EmptyGraph, FALSE, NoId, 0, {}, {}, "none")]
\* The record of a call keeps the outcome without the graph (the graph is
\* the variable graph).
Call(op, arg, usable, out) ==
    [op |-> op, arg |-> arg, usable |-> usable, out |-> [out EXCEPT !.graph = EmptyGraph]]

\* Nothing read by the parser, no query run by the query tool.
NoParse == [kind |-> "none", source |-> <<>>, records |-> <<>>, warnings |-> 0]
NoTool == [state |-> "none", max_retries |-> 0, attempt |-> 0, log |-> <<>>,
           result |-> "none", error |-> "none"]
ToolsIdle == parsed = NoParse /\ qtool = NoTool

DriverIdle ==
    /\ pc = "idle" /\ setup = "none" /\ answer = "none" /\ args = NoArgs /\ ifc_files = <<>> /\ results = <<>>
    /\ file_id = NoId /\ pos = 0 /\ counts = <<0, 0>> /\ exitCode = -1
    /\ faults = 0 /\ clean = TRUE /\ imports = <<>>

\* ------------------------------------------------- inputs of the writer API
FileIds == {"FILE_A_1", "FILE_B_1"}               \* FILE_<stem>_<mtime>
IdLists == {q \in UNION {[1..n -> GIDs] : n \in 0..MaxChildren} :
              \A i, j \in DOMAIN q : i # j => q[i] # q[j]}
OptIds == GIDs \cup {NoId}
RelRecords ==
    [type : {"AGGREGATES"}, globalId : RelIds, from_element : OptIds, to_elements : IdLists]
    \cup [type : {"CONNECTS_TO"}, globalId : RelIds, from_element : OptIds, to_element : OptIds]
    \cup [type : {"HAS_PROPERTY"}, globalId : RelIds, from_elements : IdLists, to_property : OptIds]
    \cup [type : {"CONTAINED_IN"}, globalId : RelIds, from_elements : IdLists, to_structure : OptIds]
    \cup [type : {"ASSIGNED_TO"}, globalId : RelIds, from_elements : IdLists, to_group : OptIds]

\* What the database does to the calls of one operation: which of its n
\* queries raise, whether the commit of its transaction raises (Neo4j), and
\* the kind of error raised. A handle that is not usable never reaches it.
ServeKinds(b, c) == IF b = "neo4j" /\ c = "closed" THEN BOOLEAN ELSE {FALSE}
Healthy(n) == [faults |-> [i \in 1..n |-> "none"], commit |-> "none"]
DbBehaviours(b, usable, n) ==
    IF ~usable THEN {Healthy(n)}
    ELSE {Healthy(n)} \cup
         {[faults |-> [i \in 1..n |-> IF i \in bad THEN kind ELSE "none"],
           commit |-> IF cbad THEN kind ELSE "none"] :
             bad \in SUBSET (1..n), cbad \in (IF b = "neo4j" THEN BOOLEAN ELSE {FALSE}),
             kind \in FaultKinds \ {"none"}}

\* ------------------------------------------------ SpecWriter: the writer API
Connect ==
    /\ pc = "idle"
    /\ conn \in {"new", "closed"}
    /\ \E okc \in BOOLEAN : conn' = IF okc THEN "open" ELSE "failed"
    /\ UNCHANGED <<backend, graph, now, last, calls>>
    /\ UNCHANGED driverVars

Close ==
    /\ pc = "idle"
    /\ conn \in {"open", "failed"}
    /\ conn' = "closed"
    /\ UNCHANGED <<backend, graph, now, last, calls>>
    /\ UNCHANGED driverVars

Apply(op, arg, usable, out) ==
    /\ graph' = out.graph
    /\ last' = Call(op, arg, usable, out)
    /\ calls' = calls + 1
    /\ now' = now + 1
    /\ UNCHANGED <<backend, conn>>
    /\ UNCHANGED driverVars

WriteFile ==
    /\ calls < MaxCalls
    /\ pc = "idle"
    /\ \E fid \in FileIds, serves \in ServeKinds(backend, conn) :
         LET usable == Usable(backend, conn, serves) IN
         \E db \in DbBehaviours(backend, usable, 1) :
            Apply("create_file_node", fid, usable,
                  create_file_node(backend, graph, usable, fid, now, db.faults[1], db.commit))

WriteElement ==
    /\ calls < MaxCalls
    /\ pc = "idle"
    /\ \E gid \in GIDs, cls \in Classes, fid \in FileIds \cup {NoId},
          serves \in ServeKinds(backend, conn) :
         LET usable == Usable(backend, conn, serves) IN
         \E db \in DbBehaviours(backend, usable, 1) :
            Apply("create_element_node", [globalId |-> gid, ifcClass |-> cls, file_id |-> fid],
                  usable,
                  create_element_node(backend, graph, usable, gid, cls, fid,
                                      db.faults[1], db.commit))

ClearDatabase ==
    /\ calls < MaxCalls
    /\ pc = "idle"
    /\ \E serves \in ServeKinds(backend, conn) :
         LET usable == Usable(backend, conn, serves) IN
         \E db \in DbBehaviours("falkordb", usable, 1) :
            Apply("clear_database", NoId, usable,
                  clear_database(backend, graph, usable, db.faults[1]))

GetStats ==
    /\ calls < MaxCalls
    /\ pc = "idle"
    /\ \E serves \in ServeKinds(backend, conn) :
         LET usable == Usable(backend, conn, serves) IN
         \E first \in 0..StatQueries, kind \in FaultKinds \ {"none"} :
            Apply("get_stats", NoId, usable,
                  get_stats(backend, graph, usable, first, kind))

InitWriter ==
    /\ backend \in Backends
    /\ graph = EmptyGraph
    /\ conn = "new"
    /\ now = 0
    /\ last = NoCall
    /\ calls = 0
    /\ DriverIdle
    /\ ToolsIdle

NextWriter ==
    \/ Connect
    \/ Close
    \/ WriteFile
    \/ WriteElement
    \/ ClearDatabase
    \/ GetStats

SpecWriter == InitWriter /\ [][NextWriter]_vars

\* ------------------- SpecRel: the last call of a history, on any graph
\* The graphs a call can meet: any set of Element nodes (each is written by
\* create_element_node with no file reference), in any connection state.
ElementNodes == [gid : GIDs, cls : Classes, src : {NoId}]
PreGraphs == {[EmptyGraph EXCEPT !.elems = els] : els \in SUBSET ElementNodes}

WriteRelationship ==
    /\ calls < MaxCalls
    /\ pc = "idle"
    /\ \E rel \in RelRecords, serves \in ServeKinds(backend, conn) :
         LET usable == Usable(backend, conn, serves) IN
         \E db \in DbBehaviours(backend, usable, Len(Pairs(rel))) :
            Apply("create_relationship", rel, usable,
                  create_relationship(backend, graph, usable, rel, db.faults, db.commit))

InitRel ==
    /\ backend \in Backends
    /\ graph \in PreGraphs
    /\ conn \in {"new", "open", "failed", "closed"}
    /\ now = 0
    /\ last = NoCall
    /\ calls = MaxCalls - 1
    /\ DriverIdle
    /\ ToolsIdle

NextRel ==
    \/ WriteRelationship
    \/ WriteFile
    \/ WriteElement
    \/ ClearDatabase
    \/ GetStats

SpecRel == InitRel /\ [][NextRel]_vars

\* --------------------------------------------------- Spec: one run of main
\* What the Extractor yields for the files of the input directory. state:
\* "valid", "unparsable" (parse_file returns None), "broken"
\* (extract_elements raises); a valid file may hold no element.
IfcFile(name, fid, state, elements, relationships) ==
    [name |-> name, fileId |-> fid, state |-> state,
     elements |-> elements, relationships |-> relationships]
Element(gid, cls) == [globalId |-> gid, ifcClass |-> cls]
Catalog == {
    IfcFile("a.ifc", "FILE_A_1", "valid",
            <<Element("g1", "IfcWall"), Element("g2", "IfcSlab")>>,
            <<[type |-> "AGGREGATES", globalId |-> "r1",
               from_element |-> "g1", to_elements |-> <<"g2">>],
              [type |-> "CONNECTS_TO", globalId |-> "r2",
               from_element |-> "g2", to_element |-> "g1"],
              [type |-> "AGGREGATES", globalId |-> "r3",
               from_element |-> "g1", to_elements |-> <<"g2">>]>>),
    IfcFile("b.ifc", "FILE_B_1", "valid", <<Element("g1", "IfcWall")>>, <<>>),
    IfcFile("c.ifc", "FILE_C_1", "unparsable", <<>>, <<>>),
    IfcFile("d.ifc", "FILE_D_1", "valid", <<>>, <<>>),
    IfcFile("e.ifc", "FILE_E_1", "broken", <<>>, <<>>)}
FileNames == {f.name : f \in Catalog}
FileOf(name) == CHOOSE f \in Catalog : f.name = name

\* input_dir.glob("*.ifc"): distinct paths, in directory order.
Dirs == {q \in UNION {[1..n -> FileNames] : n \in 0..MaxFiles} :
           \A i, j \in DOMAIN q : i # j => q[i] # q[j]}
ArgSets == [clear_db : BOOLEAN, force_clear : BOOLEAN, stats : BOOLEAN]

\* The record of one finished convert_file call (ghost): its result, where
\* it ended (why), whether the database raised during it (clean), whether
\* every write returned success (full), and the size of the graph it left.
Done(name, ok, why, cl, full, g) ==
    [file |-> name, ok |-> ok, why |-> why, clean |-> cl, full |-> full,
     nodes |-> NodeCount(g), edges |-> EdgeCount(g)]

\* convert_file against a database that raises nothing: the file node, then
\* every element, then every relationship.
RECURSIVE WriteElements(_, _, _, _, _)
WriteElements(b, g, elements, fid, i) ==
    IF i > Len(elements) THEN g
    ELSE WriteElements(b, create_element_node(b, g, TRUE, elements[i].globalId,
                                              elements[i].ifcClass, fid, "none", "none").graph,
                       elements, fid, i + 1)
RECURSIVE WriteRelationships(_, _, _, _)
WriteRelationships(b, g, relationships, i) ==
    IF i > Len(relationships) THEN g
    ELSE WriteRelationships(b, create_relationship(b, g, TRUE, relationships[i],
                                                   Healthy(Len(Pairs(relationships[i]))).faults,
                                                   "none").graph,
                            relationships, i + 1)
convert_file(b, g, f, date) ==
    LET g1 == create_file_node(b, g, TRUE, f.fileId, date, "none", "none").graph
    IN  IF f.state # "valid" \/ f.elements = <<>> THEN g1
        ELSE WriteRelationships(b, WriteElements(b, g1, f.elements, f.fileId, 1),
                                f.relationships, 1)

\* convert_directory: results[str(ifc_file)] = result
RecordResultAlwaysTrue(res, name, ok) == Append(res, [file |-> name, ok |-> TRUE])
RecordResult(res, name, ok) == Append(res, [file |-> name, ok |-> ok])

\* main: "Determine exit code"
SuccessCount(res) == Cardinality({i \in DOMAIN res : res[i].ok})
ExitStatusAllOrNothing(res) ==
    IF SuccessCount(res) = Len(res) /\ Len(res) > 0 THEN 0 ELSE 1
ExitStatus(res) ==
    IF SuccessCount(res) = Len(res) /\ Len(res) > 0 THEN 0
    ELSE IF SuccessCount(res) > 0 THEN 0
    ELSE 1

\* The database during a run: at most MaxFaults Graph Writer calls are hit,
\* by connection drops.
RunBehaviours(n) ==
    IF faults < MaxFaults
    THEN {d \in DbBehaviours(backend, TRUE, n) :
            d.commit # "other" /\ \A i \in 1..n : d.faults[i] # "other"}
    ELSE {Healthy(n)}
Hit(db, n) == IF db = Healthy(n) THEN 0 ELSE 1

\* main up to the IFC file check: the exit code of an early return, -1 when
\* main goes on to connect. A missing environment key or input directory
\* returns 1, a directory without IFC files returns 0.
SetupExitEmptyContinues(found, dir) ==
    IF found \in {"no_env", "no_dir"} THEN 1 ELSE -1
SetupExit(found, dir) ==
    IF found \in {"no_env", "no_dir"} THEN 1
    ELSE IF dir = <<>> THEN 0
    ELSE -1

ParseArguments ==
    /\ pc = "idle" /\ calls = 0 /\ conn = "new"
    /\ \E a \in ArgSets, found \in {"ok", "no_env", "no_dir"}, dir \in Dirs :
         /\ args' = a
         /\ setup' = found
         /\ exitCode' = SetupExit(found, dir)
         /\ IF SetupExit(found, dir) # -1
            THEN pc' = "exited" /\ UNCHANGED ifc_files
            ELSE pc' = "connecting" /\ ifc_files' = dir
    /\ UNCHANGED <<answer, parsed, qtool, backend, graph, conn, now, last, calls>>
    /\ UNCHANGED <<results, file_id, pos, counts, faults, clean, imports>>

\* db.connect(), "if not db.connect(): return 1", then --clear-db
AfterConnectIgnoreFailure(okc, a) ==
    IF ~a.clear_db THEN "converting"
    ELSE IF a.force_clear THEN "clearing" ELSE "confirming"
AfterConnectClearAlways(okc, a) ==
    IF ~okc THEN "exited"
    ELSE IF a.force_clear THEN "clearing" ELSE "confirming"
AfterConnect(okc, a) ==
    IF ~okc THEN "exited"
    ELSE IF ~a.clear_db THEN "converting"
    ELSE IF a.force_clear THEN "clearing" ELSE "confirming"

ConnectDatabase ==
    /\ pc = "connecting"
    /\ \E okc \in BOOLEAN :
         /\ conn' = IF okc THEN "open" ELSE "failed"
         /\ pc' = AfterConnect(okc, args)
         /\ exitCode' = IF AfterConnect(okc, args) = "exited" THEN 1 ELSE exitCode
    /\ UNCHANGED <<answer, parsed, qtool, backend, graph, now, last, calls>>
    /\ UNCHANGED <<setup, args, ifc_files, results, file_id, pos, counts, faults, clean, imports>>

\* --clear-db without --force-clear: the confirmation prompt
AfterAnswerNoClears(response) ==
    IF response \in {"yes", "no"} THEN "clearing" ELSE "confirming"
AfterAnswer(response) ==
    IF response = "yes" THEN "clearing"
    ELSE IF response = "no" THEN "converting" ELSE "confirming"

ConfirmClear ==
    /\ pc = "confirming"
    /\ \E response \in {"yes", "no", "other"} :
         /\ answer' = response
         /\ pc' = AfterAnswer(response)
    /\ UNCHANGED <<parsed, qtool, backend, graph, conn, now, last, calls>>
    /\ UNCHANGED <<setup, args, ifc_files, results, file_id, pos, counts, exitCode, faults,
                   clean, imports>>

\* if should_clear: db.clear_database(); a failure is only a warning
ClearStep ==
    /\ pc = "clearing"
    /\ \E db \in RunBehaviours(1) :
         LET out == clear_database(backend, graph, TRUE, db.faults[1]) IN
         /\ graph' = out.graph
         /\ last' = Call("clear_database", NoId, TRUE, out)
         /\ faults' = faults + Hit(db, 1)
         /\ imports' = IF out.ok THEN <<>> ELSE imports
    /\ pc' = "converting"
    /\ UNCHANGED <<answer, parsed, qtool, backend, conn, now, calls>>
    /\ UNCHANGED <<setup, args, ifc_files, results, file_id, pos, counts, exitCode, clean>>

\* The end of one convert_file call inside convert_directory's loop.
FinishFileAllOrNothing(f, ok, why, g, cl, full) ==
    /\ results' = RecordResult(results, f.name, ok /\ full)
    /\ imports' = Append(imports, Done(f.name, ok /\ full, why, cl, full, g))
    /\ pc' = "converting"
    /\ file_id' = NoId /\ pos' = 0 /\ counts' = <<0, 0>> /\ clean' = TRUE
FinishFile(f, ok, why, g, cl, full) ==
    /\ results' = RecordResult(results, f.name, ok)
    /\ imports' = Append(imports, Done(f.name, ok, why, cl, full, g))
    /\ pc' = "converting"
    /\ file_id' = NoId /\ pos' = 0 /\ counts' = <<0, 0>> /\ clean' = TRUE

\* convert_file, step 1: file_id = self.db.create_file_node(ifc_file_path)
ConvertFile ==
    /\ pc = "converting"
    /\ Len(results) < Len(ifc_files)
    /\ LET f == FileOf(ifc_files[Len(results) + 1]) IN
       \E db \in RunBehaviours(1) :
         LET out == create_file_node(backend, graph, TRUE, f.fileId, now,
                                     db.faults[1], db.commit) IN
         /\ graph' = out.graph
         /\ last' = Call("create_file_node", f.fileId, TRUE, out)
         /\ faults' = faults + Hit(db, 1)
         /\ IF out.ok
            THEN /\ pc' = "parsing" /\ file_id' = out.value
                 /\ clean' = (db = Healthy(1))
                 /\ UNCHANGED <<results, imports, pos, counts>>
            ELSE FinishFile(f, FALSE, "file_node", out.graph, FALSE, FALSE)
    /\ UNCHANGED <<answer, parsed, qtool, backend, conn, now, calls, setup, args, ifc_files, exitCode>>

\* convert_file, steps 2 and 3: parse_file, extract_elements
ParseFile ==
    /\ pc = "parsing"
    /\ LET f == FileOf(ifc_files[Len(results) + 1]) IN
       IF f.state = "unparsable" THEN FinishFile(f, FALSE, "parse", graph, clean, FALSE)
       ELSE IF f.state = "broken" THEN FinishFile(f, FALSE, "exception", graph, clean, FALSE)
       ELSE IF f.elements = <<>> THEN FinishFile(f, FALSE, "empty", graph, clean, FALSE)
       ELSE /\ pc' = "nodes" /\ pos' = 1
            /\ UNCHANGED <<results, imports, file_id, counts, clean>>
    /\ UNCHANGED <<answer, parsed, qtool, backend, graph, conn, now, last, calls, setup, args, ifc_files,
                   exitCode, faults>>

\* convert_file, step 4: one pass of "for element in elements"
WriteElementNode ==
    /\ pc = "nodes"
    /\ LET f == FileOf(ifc_files[Len(results) + 1])
           e == f.elements[pos] IN
       \E db \in RunBehaviours(1) :
         LET out == create_element_node(backend, graph, TRUE, e.globalId, e.ifcClass,
                                        file_id, db.faults[1], db.commit)
             cnt == [counts EXCEPT ![1] = @ + (IF out.ok THEN 1 ELSE 0)]
             cl  == clean /\ db = Healthy(1) IN
         /\ graph' = out.graph
         /\ last' = Call("create_element_node",
                         [globalId |-> e.globalId, ifcClass |-> e.ifcClass, file_id |-> file_id],
                         TRUE, out)
         /\ faults' = faults + Hit(db, 1)
         /\ IF pos < Len(f.elements)
            THEN /\ pos' = pos + 1 /\ counts' = cnt /\ clean' = cl
                 /\ UNCHANGED <<pc, results, imports, file_id>>
            ELSE IF f.relationships # <<>>
            THEN /\ pc' = "edges" /\ pos' = 1 /\ counts' = cnt /\ clean' = cl
                 /\ UNCHANGED <<results, imports, file_id>>
            ELSE FinishFile(f, TRUE, "done", out.graph, cl, cnt[1] = Len(f.elements))
    /\ UNCHANGED <<answer, parsed, qtool, backend, conn, now, calls, setup, args, ifc_files, exitCode>>

\* convert_file, step 5: one pass of "for relationship in relationships"
WriteRelationshipEdge ==
    /\ pc = "edges"
    /\ LET f == FileOf(ifc_files[Len(results) + 1])
           rel == f.relationships[pos]
           n == Len(Pairs(rel)) IN
       \E db \in RunBehaviours(n) :
         LET out == create_relationship(backend, graph, TRUE, rel, db.faults, db.commit)
             cnt == [counts EXCEPT ![2] = @ + (IF out.ok THEN 1 ELSE 0)]
             cl  == clean /\ db = Healthy(n) IN
         /\ graph' = out.graph
         /\ last' = Call("create_relationship", rel, TRUE, out)
         /\ faults' = faults + Hit(db, n)
         /\ IF pos < Len(f.relationships)
            THEN /\ pos' = pos + 1 /\ counts' = cnt /\ clean' = cl
                 /\ UNCHANGED <<pc, results, imports, file_id>>
            ELSE FinishFile(f, TRUE, "done", out.graph, cl,
                            cnt = <<Len(f.elements), Len(f.relationships)>>)
    /\ UNCHANGED <<answer, parsed, qtool, backend, conn, now, calls, setup, args, ifc_files, exitCode>>

\* main after convert_directory: statistics (--stats), print_summary,
\* db.close(), exit code.
Summary ==
    /\ pc = "converting"
    /\ Len(results) = Len(ifc_files)
    /\ IF args.stats
       THEN \E first \in (IF faults < MaxFaults THEN 0..StatQueries ELSE {0}) :
              /\ last' = Call("get_stats", NoId, TRUE,
                              get_stats(backend, graph, TRUE, first, "connection"))
              /\ faults' = faults + (IF first = 0 THEN 0 ELSE 1)
       ELSE UNCHANGED <<last, faults>>
    /\ conn' = "closed"
    /\ exitCode' = ExitStatus(results)
    /\ pc' = "closed"
    /\ UNCHANGED <<answer, parsed, qtool, backend, graph, now, calls>>
    /\ UNCHANGED <<setup, args, ifc_files, results, file_id, pos, counts, clean, imports>>

\* The store a run starts on: empty, or left by earlier imports of valid
\* files at an earlier date (ghost history seeded with those imports).
MaxPrior == 2
ValidNames == {f.name : f \in {c \in Catalog : c.state = "valid" /\ c.elements # <<>>}}
Priors == {q \in UNION {[1..n -> ValidNames] : n \in 0..MaxPrior} :
             \A i, j \in DOMAIN q : i # j => q[i] # q[j]}
RECURSIVE PriorGraph(_, _)
PriorGraph(b, prior) ==
    IF prior = <<>> THEN EmptyGraph
    ELSE convert_file(b, PriorGraph(b, SubSeq(prior, 1, Len(prior) - 1)),
                      FileOf(prior[Len(prior)]), 0)
PriorHistory(b, prior) ==
    [i \in 1..Len(prior) |->
        Done(prior[i], TRUE, "done", TRUE, TRUE, PriorGraph(b, SubSeq(prior, 1, i)))]

Init ==
    /\ backend \in Backends
    /\ \E prior \in Priors :
         /\ graph = PriorGraph(backend, prior)
         /\ imports = PriorHistory(backend, prior)
    /\ conn = "new"
    /\ now = 1
    /\ last = NoCall
    /\ calls = 0
    /\ pc = "idle" /\ setup = "none" /\ answer = "none" /\ args = NoArgs /\ ifc_files = <<>> /\ results = <<>>
    /\ file_id = NoId /\ pos = 0 /\ counts = <<0, 0>> /\ exitCode = -1
    /\ faults = 0 /\ clean = TRUE
    /\ ToolsIdle

Next ==
    \/ ParseArguments
    \/ ConnectDatabase
    \/ ConfirmClear
    \/ ClearStep
    \/ ConvertFile
    \/ ParseFile
    \/ WriteElementNode
    \/ WriteRelationshipEdge
    \/ Summary

Spec == Init /\ [][Next]_vars

\* ------------------------------------------------------------ properties
IsRelWrite == last.op = "create_relationship"
Exists(id) == MatchElement(graph, id) # {}
EdgesOf(type, from_id, to_id) ==
    {e \in graph.rels : e.type = type /\ e.from[1] = from_id /\ e.to[1] = to_id}

\* imports[i] and imports[i + 1] are the same file, every write succeeding
C1_SameFileTwice(i) ==
    /\ imports[i].file = imports[i + 1].file
    /\ imports[i].ok /\ imports[i].clean /\ imports[i].full
    /\ imports[i + 1].ok /\ imports[i + 1].clean /\ imports[i + 1].full

\* C1: two convert_file calls in succession on the same unchanged file, every
\* write succeeding, leave the graph with the same number of nodes and the
\* same number of edges as the first of them left.
C1_IdempotentReimport ==
    \A i \in 1..(Len(imports) - 1) :
        C1_SameFileTwice(i) =>
            /\ imports[i + 1].nodes = imports[i].nodes
            /\ imports[i + 1].edges = imports[i].edges
C1_Witness ==
    \E i \in 1..(Len(imports) - 1) :
        /\ C1_SameFileTwice(i)
        /\ Len(results) > 0 /\ results[Len(results)].file = imports[i + 1].file
        /\ imports[i + 1].edges >= 4

\* C2: after any sequence of create_element_node calls the graph holds at
\* most one Element node per globalId.
C2_OneNodePerGlobalId ==
    \A gid \in GIDs : Cardinality(MatchElement(graph, gid)) <= 1

\* C3: whenever create_element_node returns success, the graph holds a node
\* labelled Element and the record's ifcClass whose globalId is the record's.
C3_SuccessfulWriteLeavesNode ==
    (last.op = "create_element_node" /\ last.out.ok) =>
        \E n \in graph.elems : n.gid = last.arg.globalId /\ n.cls = last.arg.ifcClass
C3_Witness ==
    /\ last.op = "create_element_node" /\ last.out.ok
    /\ last.arg.file_id # NoId
    /\ \E n \in graph.elems : n.gid = last.arg.globalId /\ n.src = last.arg.file_id

\* C4: after create_relationship on an aggregation record with N children
\* (no database error), at most N AGGREGATES edges of the record leave the
\* parent, and exactly N when the parent and all children exist.
C4_AggregatesAtMostN ==
    (IsRelWrite /\ last.arg.type = "AGGREGATES" /\ last.usable /\ last.out.err = "none") =>
        LET rel == last.arg
            N == Len(rel.to_elements)
            made == {e \in graph.rels : /\ e.type = "AGGREGATES"
                                        /\ e.rid = rel.globalId
                                        /\ e.from[1] = rel.from_element}
        IN  /\ Cardinality(made) <= N
            /\ (Exists(rel.from_element) /\ \A i \in 1..N : Exists(rel.to_elements[i]))
                  => Cardinality(made) = N

\* C5: for every edge-producing relationship kind in both backends (no
\* database error), a pair with a missing endpoint gets no edge and counts
\* as failed (a CONNECTS_TO record returns False), and every pair of the
\* record whose two endpoints exist gets its edge.
C5_MissingEndpointFails ==
    (/\ IsRelWrite /\ last.usable /\ last.out.err = "none"
     /\ ~(backend = "neo4j" /\ last.arg.type = "HAS_PROPERTY")) =>
        LET rel == last.arg
            pairs == Pairs(rel)
        IN  \A i \in DOMAIN pairs :
               IF Exists(pairs[i][1]) /\ Exists(pairs[i][2])
               THEN EdgesOf(rel.type, pairs[i][1], pairs[i][2]) # {}
               ELSE /\ EdgesOf(rel.type, pairs[i][1], pairs[i][2]) = {}
                    /\ i \notin last.out.created
                    /\ rel.type = "CONNECTS_TO" => ~last.out.ok

\* C6: for a multi-endpoint record, create_relationship returns True iff at
\* least one pair produced an edge, and once the first pair has been
\* attempted every pair of the record is attempted, database error or not.
C6_PairsIndependent ==
    (IsRelWrite /\ last.arg.type \in MultiTypes /\ last.usable) =>
        /\ last.out.ok <=> last.out.created # {}
        /\ last.out.tried # {} => last.out.tried = DOMAIN Pairs(last.arg)

\* The ghost records of the convert_file calls of this run, one per result.
ThisRun == SubSeq(imports, Len(imports) - Len(results) + 1, Len(imports))

\* C7: when convert_directory has returned, every matched file has been
\* processed and results holds exactly one boolean entry per matched file,
\* False for each file that failed (file-node write, parse, zero elements,
\* exception), whatever happened to the files before it.
C7_FailureIsolated ==
    pc = "closed" =>
        /\ Len(results) = Len(ifc_files)
        /\ Len(imports) >= Len(results)
        /\ \A i \in 1..Len(ifc_files) :
              /\ results[i].file = ifc_files[i]
              /\ ThisRun[i].file = ifc_files[i]
              /\ results[i].ok \in BOOLEAN
              /\ ThisRun[i].why # "done" => ~results[i].ok
              /\ (FileOf(ifc_files[i]).state # "valid" \/ FileOf(ifc_files[i]).elements = <<>>)
                    => ~results[i].ok
C7_Witness ==
    /\ pc = "closed" /\ Len(results) = 3
    /\ ThisRun[1].why = "file_node" /\ ~results[1].ok
    /\ ThisRun[2].why \in {"parse", "empty", "exception"} /\ ~results[2].ok
    /\ results[3].ok

\* C8: main returns 0 when every attempted file succeeded, 0 when at least
\* one but not all succeeded, and 1 when none succeeded.
C8_ExitStatusFromResults ==
    pc = "closed" =>
        LET won == {i \in DOMAIN results : results[i].ok}
            lost == {i \in DOMAIN results : ~results[i].ok}
        IN  /\ (won # {} /\ lost = {}) => exitCode = 0
            /\ (won # {} /\ lost # {}) => exitCode = 0
            /\ won = {} => exitCode = 1
C8_Witness ==
    /\ pc = "closed" /\ exitCode = 0
    /\ \E i, j \in DOMAIN results : results[i].ok /\ ~results[j].ok

C11_SetupErrorsFatal ==
    (setup \in {"no_env", "no_dir"} \/ conn = "failed") =>
        /\ pc = "exited" /\ exitCode = 1
        /\ last = NoCall /\ results = <<>> /\ imports = PriorHistory(backend, [i \in 1..Len(imports) |-> imports[i].file])
C11_Witness ==
    /\ conn = "failed" /\ pc = "exited" /\ exitCode = 1
    /\ args.clear_db /\ args.force_clear
    /\ graph # EmptyGraph /\ last = NoCall

\* A Graph Writer call is made by this step.
Issued(ops) == last' # last /\ last'.op \in ops
\* The steps main can take from one position to the next.
PhaseStep ==
    \/ pc = "idle" /\ pc' \in {"connecting", "exited"}
    \/ pc = "connecting" /\ pc' = "exited"
    \/ pc = "connecting" /\ pc' = "converting" /\ ~args.clear_db
    \/ pc = "connecting" /\ pc' = "clearing" /\ args.clear_db /\ args.force_clear
    \/ pc = "connecting" /\ pc' = "confirming" /\ args.clear_db /\ ~args.force_clear
    \/ pc = "confirming" /\ pc' \in {"confirming", "clearing", "converting"}
    \/ pc = "clearing" /\ pc' = "converting"
    \/ pc = "converting" /\ pc' \in {"converting", "parsing", "closed"}
    \/ pc = "parsing" /\ pc' \in {"nodes", "converting"}
    \/ pc = "nodes" /\ pc' \in {"nodes", "edges", "converting"}
    \/ pc = "edges" /\ pc' \in {"edges", "converting"}

\* C12 (as stated): the phases occur in order, and no graph write for a file
\* (file node, element node, relationship) is issued before that file has
\* been parsed.
C12_NoWriteBeforeParse ==
    [][/\ PhaseStep
       /\ Issued({"create_file_node", "create_element_node", "create_relationship"})
             => pc \in {"nodes", "edges"}]_vars

\* C12 (amended): main moves only along IDLE, CONNECTING, optional CLEARING
\* (only with --clear-db), then per file the file-node write, PARSING,
\* WRITING_NODES, WRITING_EDGES, then SUMMARY and CLOSED; the file node of a
\* file is written before the file is parsed, no element or relationship
\* write is issued before it has been parsed, the store is cleared only
\* before the first file has started, and nothing runs after CLOSED.
C12_PhaseOrder ==
    [][/\ PhaseStep
       /\ Issued({"create_file_node"}) => pc = "converting" /\ pc' \in {"parsing", "converting"}
       /\ Issued({"create_element_node"}) => pc = "nodes"
       /\ Issued({"create_relationship"}) => pc = "edges"
       /\ Issued({"clear_database"}) => pc = "clearing" /\ results = <<>> /\ file_id = NoId
       /\ Issued({"get_stats"}) => pc' = "closed" /\ Len(results) = Len(ifc_files)]_vars
C12_Witness ==
    /\ pc = "closed" /\ args.clear_db /\ ~args.force_clear
    /\ Len(results) = 2 /\ Len(imports) = 2
    /\ ~results[1].ok /\ results[2].ok /\ imports[2].edges >= 4
    /\ last.op = "get_stats"

\* Every typed edge of the graph joins two Element nodes of the graph.
EdgesJoinNodes ==
    \A e \in graph.rels :
        /\ \E n \in graph.elems : NodeKey(n) = e.from
        /\ \E n \in graph.elems : NodeKey(n) = e.to

\* C13: within convert_file the file node is written first, then every
\* element node, then every relationship: an element write follows the
\* file-node write of its file or another element write, the first
\* relationship write follows the write of the file's last element, no
\* element write follows a relationship write of the same file, and every
\* edge joins nodes that were already written.
C13_WriteOrder ==
    /\ []EdgesJoinNodes
    /\ [][LET f == FileOf(ifc_files[Len(results) + 1]) IN
          /\ Issued({"create_element_node"}) =>
                /\ file_id # NoId /\ last'.arg.file_id = file_id
                /\ MatchFile(graph, file_id) # {}
                /\ \/ last.op = "create_file_node" /\ last.arg = file_id /\ pos = 1
                   \/ last.op = "create_element_node" /\ last.arg.file_id = file_id /\ pos > 1
                /\ last'.arg.globalId = f.elements[pos].globalId
          /\ Issued({"create_relationship"}) =>
                /\ last'.arg = f.relationships[pos]
                /\ \/ /\ pos = 1 /\ last.op = "create_element_node"
                      /\ last.arg.globalId = f.elements[Len(f.elements)].globalId
                      /\ last.arg.file_id = file_id
                   \/ pos > 1 /\ last.op = "create_relationship"
                         /\ last.arg = f.relationships[pos - 1]]_vars
C13_Witness ==
    /\ pc = "edges" /\ pos = 2
    /\ last.op = "create_relationship" /\ last.out.created # {}
    /\ \A i \in 1..2 : \E n \in graph.elems :
          n.gid = FileOf(ifc_files[Len(results) + 1]).elements[i].globalId /\ n.src = file_id
    /\ graph.rels # {}

\* C14: the connection is opened once per run and, on every path on which
\* the run ends after the connection was attempted (normal end, failed
\* connect), it has been closed; nothing is written after close.
C14_ClosedOnEveryExit ==
    /\ (pc \in {"closed", "exited"} /\ conn # "new") => conn = "closed"
    /\ conn = "closed" => pc = "closed"
    /\ conn = "new" => pc \in {"idle", "connecting", "exited"}

\* ------------------------------- SpecInt: a run of main that is interrupted
\* KeyboardInterrupt raised while main is at any position outside the
\* statistics query: no handler below main catches it ("except Exception"),
\* main's "except KeyboardInterrupt" returns 130.
Interrupt ==
    /\ pc \in {"idle", "connecting", "confirming", "clearing", "converting",
               "parsing", "nodes", "edges"}
    /\ pc' = "interrupted"
    /\ exitCode' = 130
    /\ UNCHANGED <<answer, parsed, qtool, backend, graph, conn, now, last, calls>>
    /\ UNCHANGED <<setup, args, ifc_files, results, file_id, pos, counts, faults,
                   clean, imports>>

\* KeyboardInterrupt raised in one of the statistics queries (--stats): main
\* returns 130 if it leaves get_stats, else goes on to the summary.
InterruptStats ==
    /\ pc = "converting"
    /\ Len(results) = Len(ifc_files)
    /\ args.stats
    /\ \E first \in 1..StatQueries :
         LET out == get_stats(backend, graph, TRUE, first, "interrupt") IN
         /\ last' = Call("get_stats", NoId, TRUE, out)
         /\ IF out.propagated
            THEN /\ pc' = "interrupted" /\ exitCode' = 130
                 /\ UNCHANGED conn
            ELSE /\ pc' = "closed" /\ exitCode' = ExitStatus(results)
                 /\ conn' = "closed"
    /\ UNCHANGED <<answer, parsed, qtool, backend, graph, now, calls>>
    /\ UNCHANGED <<setup, args, ifc_files, results, file_id, pos, counts, faults,
                   clean, imports>>

\* The run starts on an empty store, with a database that raises nothing.
\* parse_arguments() meets an invalid command line (or --help): argparse
\* raises SystemExit, which is no Exception; it leaves main and the process
\* ends with argparse's status.
ArgumentError ==
    /\ pc = "idle"
    /\ pc' = "escaped"
    /\ exitCode' = 2
    /\ UNCHANGED <<answer, parsed, qtool, backend, graph, conn, now, last, calls>>
    /\ UNCHANGED <<setup, args, ifc_files, results, file_id, pos, counts, faults,
                   clean, imports>>

\* setup_logging raises (the log directory or file cannot be created): main's
\* "except Exception" handler calls logger.error with logger not yet bound,
\* and the UnboundLocalError raised there leaves main, which returns nothing.
LoggingError ==
    /\ pc = "idle"
    /\ pc' = "escaped"
    /\ UNCHANGED exitCode
    /\ UNCHANGED <<answer, parsed, qtool, backend, graph, conn, now, last, calls>>
    /\ UNCHANGED <<setup, args, ifc_files, results, file_id, pos, counts, faults,
                   clean, imports>>

\* An Exception raised in main once logging is set up (an unreadable input
\* directory, a failing print, ...): logged, main returns 1.
UnexpectedError ==
    /\ pc \in {"idle", "connecting", "confirming", "clearing", "converting",
               "parsing", "nodes", "edges"}
    /\ pc' = "exited"
    /\ exitCode' = 1
    /\ UNCHANGED <<answer, parsed, qtool, backend, graph, conn, now, last, calls>>
    /\ UNCHANGED <<setup, args, ifc_files, results, file_id, pos, counts, faults,
                   clean, imports>>

InitInt ==
    /\ backend \in Backends
    /\ graph = EmptyGraph
    /\ conn = "new"
    /\ now = 1
    /\ last = NoCall
    /\ calls = 0
    /\ pc = "idle" /\ setup = "none" /\ answer = "none" /\ args = NoArgs /\ ifc_files = <<>> /\ results = <<>>
    /\ file_id = NoId /\ pos = 0 /\ counts = <<0, 0>> /\ exitCode = -1
    /\ faults = MaxFaults /\ clean = TRUE /\ imports = <<>>
    /\ ToolsIdle

NextInt ==
    \/ ParseArguments
    \/ ConnectDatabase
    \/ ConfirmClear
    \/ ClearStep
    \/ ConvertFile
    \/ ParseFile
    \/ WriteElementNode
    \/ WriteRelationshipEdge
    \/ Summary
    \/ Interrupt
    \/ InterruptStats
    \/ ArgumentError
    \/ LoggingError
    \/ UnexpectedError

SpecInt == InitInt /\ [][NextInt]_vars

\* C15: a KeyboardInterrupt raised at any point of a run (setup, prompt,
\* parsing, node or edge writes, statistics) reaches the top level and main
\* returns 130.
C15_InterruptReturns130 ==
    /\ pc = "interrupted" => exitCode = 130
    /\ last.out.err = "interrupt" => pc = "interrupted" /\ exitCode = 130

\* C16: when the input directory holds no IFC file, the run ends with exit
\* code 0 and an empty result list, without connecting to the graph store
\* and without issuing any operation against it: the graph is left as found.
C16_NoFilesExitZero ==
    /\ [](setup = "ok" /\ ifc_files = <<>> /\ pc # "idle"
            => /\ pc = "exited" /\ exitCode = 0
               /\ results = <<>> /\ last = NoCall /\ conn = "new")
    /\ [][setup' = "ok" /\ ifc_files' = <<>>
            => graph' = graph /\ imports' = imports]_vars
C16_Witness ==
    /\ setup = "ok" /\ ifc_files = <<>> /\ pc = "exited" /\ exitCode = 0
    /\ graph # EmptyGraph

\* The outcome the named backend gives for the write recorded in c, from
\* graph g at time t, on a usable connection to a database that raises nothing.
C17_Outcome(b, g, t, c) ==
    IF c.op = "create_file_node"
    THEN create_file_node(b, g, TRUE, c.arg, t, "none", "none")
    ELSE IF c.op = "create_element_node"
    THEN create_element_node(b, g, TRUE, c.arg.globalId, c.arg.ifcClass, c.arg.file_id,
                             "none", "none")
    ELSE create_relationship(b, g, TRUE, c.arg, Healthy(Len(Pairs(c.arg))).faults, "none")

\* C17: the two backends have the same data contract: a file, element or
\* relationship write that the database serves without error returns the
\* same value and leaves the same nodes, labels and edges on Neo4j and on
\* FalkorDB.
C17_BackendsAgree ==
    [][Issued({"create_file_node", "create_element_node", "create_relationship"})
       /\ last'.usable /\ last'.out.err = "none"
         => \A b \in Backends :
              /\ C17_Outcome(b, graph, now, last').ok = last'.out.ok
              /\ C17_Outcome(b, graph, now, last').graph = graph']_vars

\* C18: a HAS_PROPERTY relationship record is a no-op at the graph-write
\* layer: the write leaves the graph as it was, and no HAS_PROPERTY edge is
\* ever in the graph.
C18_PropertyIsNoOp ==
    /\ [](\A e \in graph.rels : e.type # "HAS_PROPERTY")
    /\ [][Issued({"create_relationship"}) /\ last'.arg.type = "HAS_PROPERTY"
            => graph' = graph]_vars

\* C19: at every point of a batch import, every Element node of the graph
\* has a BELONGS_TO_FILE edge to the IFCFile node whose fileId is the
\* element's sourceFileId, and that IFCFile node exists.
C19_ElementBelongsToFile ==
    \A n \in graph.elems :
        /\ MatchFile(graph, n.src) # {}
        /\ [gid |-> n.gid, cls |-> n.cls, fileId |-> n.src] \in graph.belongs
C19_Witness ==
    /\ pc = "closed"
    /\ \E n \in graph.elems : n.src = "FILE_A_1"
    /\ \E n \in graph.elems :
          /\ n.src = "FILE_B_1"
          /\ [gid |-> n.gid, cls |-> n.cls, fileId |-> "FILE_A_1"] \in graph.belongs
    /\ \E i \in DOMAIN imports : ~imports[i].ok

\* The file identifiers of the IFCFile nodes, and those of the convert_file
\* calls since the store was last cleared whose outcome is not in skip (the
\* call in progress has passed its file-node write).
C20_NodeIds == {f.fileId : f \in graph.files}
C20_CallIds(skip) ==
    {FileOf(imports[i].file).fileId : i \in {j \in DOMAIN imports : imports[j].why \notin skip}}
        \cup ({file_id} \ {NoId})
C20_OnlyClearRemoves ==
    [][C20_NodeIds \subseteq {f.fileId : f \in graph'.files}
       \/ (Issued({"clear_database"}) /\ last'.out.ok)]_vars

\* C20 as stated: every convert_file leaves one IFCFile node for its derived
\* identifier, only clear_database removes IFCFile nodes, and the IFCFile
\* nodes are, one each, the identifiers convert_file was called on.
C20_OneNodePerConvertFile ==
    /\ [](/\ C20_NodeIds = C20_CallIds({})
          /\ Cardinality(graph.files) = Cardinality(C20_NodeIds))
    /\ C20_OnlyClearRemoves

\* C20, amended: every convert_file whose file-node write succeeds leaves one
\* IFCFile node for its derived identifier, whether or not the rest of the
\* import succeeds; a convert_file whose file-node write fails leaves none;
\* only a successful clear_database removes IFCFile nodes.
C20_FileNodeLifecycle ==
    /\ [](/\ C20_NodeIds = C20_CallIds({"file_node"})
          /\ Cardinality(graph.files) = Cardinality(C20_NodeIds))
    /\ C20_OnlyClearRemoves
C20_Witness ==
    /\ pc = "closed"
    /\ Cardinality(graph.files) >= 2
    /\ \E i \in DOMAIN imports : imports[i].why = "file_node"
    /\ \E i, j \in DOMAIN imports :
          /\ i < j /\ imports[i].file = imports[j].file
          /\ imports[i].why # "file_node" /\ imports[j].why # "file_node"

\* The endpoint identifiers of an edge, and the edges of graph g that a
\* relationship record's k-th pair stands for.
EdgeIds(e) == <<e.from[1], e.to[1]>>
EdgesFor(g, rel, k) == {e \in g.rels : e.type = rel.type /\ EdgeIds(e) = Pairs(rel)[k]}
CatalogRecords == UNION {{f.relationships[i] : i \in DOMAIN f.relationships} : f \in Catalog}

\* C21: a relationship write that returns success leaves, for every endpoint
\* pair whose nodes it matched, an edge whose globalId is the record's
\* globalId (a new edge or the edge already there); so every edge of the
\* graph carries the globalId of a record written for its type and pair.
C21_EdgeCarriesRecordId ==
    /\ [](\A e \in graph.rels :
            \E rel \in CatalogRecords :
               /\ rel.type = e.type /\ rel.globalId = e.rid
               /\ \E k \in DOMAIN Pairs(rel) : Pairs(rel)[k] = EdgeIds(e))
    /\ [][Issued({"create_relationship"}) /\ last'.out.ok
            => \A k \in last'.out.created :
                  /\ EdgesFor(graph', last'.arg, k) # {}
                  /\ \A e \in EdgesFor(graph', last'.arg, k) : e.rid = last'.arg.globalId]_vars
C21_Witness ==
    /\ last.op = "create_relationship" /\ last.out.ok /\ last.arg.globalId = "r1"
    /\ \E i \in DOMAIN imports : imports[i].file = "a.ifc" /\ imports[i].ok
    /\ \E e \in graph.rels : e.type = "AGGREGATES" /\ e.rid = "r1"
    /\ \A e \in graph.rels : e.rid # "r3"

\* ------------------------------------------------ SpecParse: the IFC parser
MaxItems == 2      \* source items (products, relationships, property sets) per file
MaxProps == 2      \* properties per property set

\* ifc_file.by_type('IfcProduct'): each product is read without error or
\* raises when its attributes are read.
ElementItems == [globalId : GIDs, kind : {"ok", "raises"}]
ElementSources == UNION {[1..n -> ElementItems] : n \in 0..MaxItems}

\* for element in by_type('IfcProduct'): try: append(_extract_element_data)
\* except Exception: warning, continue
RECURSIVE extract_elements(_)
extract_elements(items) ==
    IF items = <<>> THEN [records |-> <<>>, warnings |-> 0]
    ELSE LET rest == extract_elements(Tail(items)) IN
         IF Head(items).kind = "raises"
         THEN [rest EXCEPT !.warnings = @ + 1]
         ELSE [rest EXCEPT !.records = <<[globalId |-> Head(items).globalId]>> \o @]

\* The relationship entities of a file. is_a is the entity's own class:
\* by_type(t) also returns the entities of t's subclasses, such as
\* IfcRelConnectsPathElements under IfcRelConnectsElements.
rel_types == <<"IfcRelAggregates", "IfcRelConnectsElements", "IfcRelDefinesByProperties",
               "IfcRelContainedInSpatialStructure", "IfcRelAssignsToGroup">>
RelClasses == {rel_types[i] : i \in DOMAIN rel_types} \cup {"IfcRelConnectsPathElements"}
SuperClass(c) == IF c = "IfcRelConnectsPathElements" THEN "IfcRelConnectsElements" ELSE c
RelItems == [globalId : RelIds, is_a : RelClasses, kind : {"ok", "raises"}]
RelSources == UNION {[1..n -> RelItems] : n \in 0..MaxItems}
by_type(file, t) == SelectSeq(file, LAMBDA r : SuperClass(r.is_a) = t)

\* _extract_relationship_data: the record of the entity (got = "record"),
\* None when its class is none of the five, an exception when reading it raises.
RelTypeOf(c) ==
    IF c = "IfcRelAggregates" THEN "AGGREGATES"
    ELSE IF c = "IfcRelConnectsElements" THEN "CONNECTS_TO"
    ELSE IF c = "IfcRelDefinesByProperties" THEN "HAS_PROPERTY"
    ELSE IF c = "IfcRelContainedInSpatialStructure" THEN "CONTAINED_IN"
    ELSE IF c = "IfcRelAssignsToGroup" THEN "ASSIGNED_TO"
    ELSE "None"
extract_relationship_data(r) ==
    [got |-> IF RelTypeOf(r.is_a) = "None" THEN "None"
             ELSE IF r.kind = "raises" THEN "raise" ELSE "record",
     type |-> RelTypeOf(r.is_a), globalId |-> r.globalId]

\* for rel in by_type(rel_type): try: rel_data = ...; if rel_data: append
\* except Exception: warning, continue
RECURSIVE ExtractEach(_)
ExtractEach(items) ==
    IF items = <<>> THEN [records |-> <<>>, warnings |-> 0]
    ELSE LET rest == ExtractEach(Tail(items))
             data == extract_relationship_data(Head(items)) IN
         IF data.got = "raise" THEN [rest EXCEPT !.warnings = @ + 1]
         ELSE IF data.got = "None" THEN rest
         ELSE [rest EXCEPT !.records = <<[type |-> data.type, globalId |-> data.globalId]>> \o @]
RECURSIVE Iterated(_, _)
Iterated(file, i) ==
    IF i > Len(rel_types) THEN <<>> ELSE by_type(file, rel_types[i]) \o Iterated(file, i + 1)
extract_relationships(file) == ExtractEach(Iterated(file, 1))

\* The property definitions met through an element's IsDefinedBy: a property
\* set with its properties, another definition (quantities), or one whose
\* reading raises. A property is well formed, has no Name/NominalValue, or
\* raises when read.
PropKinds == {"ok", "novalue", "raises"}
PropLists == UNION {[1..n -> PropKinds] : n \in 0..MaxProps}
PsetItems == [def : {"pset"}, props : PropLists]
                \cup [def : {"quantity", "broken"}, props : {<<>>}]
PsetSources == UNION {[1..n -> PsetItems] : n \in 0..MaxItems}

\* _extract_properties: one try around both loops; an exception ends the
\* extraction with what has been gathered so far.
RECURSIVE PropWalk(_, _, _, _)
PropWalk(props, i, j, acc) ==
    IF j > Len(props) THEN acc
    ELSE IF props[j] = "raises" THEN [acc EXCEPT !.warnings = 1]
    ELSE PropWalk(props, i, j + 1,
                  IF props[j] = "ok" THEN [acc EXCEPT !.props = @ \cup {<<i, j>>}] ELSE acc)
RECURSIVE PsetWalk(_, _, _)
PsetWalk(psets, i, acc) ==
    IF i > Len(psets) \/ acc.warnings > 0 THEN acc
    ELSE IF psets[i].def = "broken" THEN [acc EXCEPT !.warnings = 1]
    ELSE IF psets[i].def = "quantity" THEN PsetWalk(psets, i + 1, acc)
    ELSE PsetWalk(psets, i + 1,
                  PropWalk(psets[i].props, i, 1, [acc EXCEPT !.sets = @ \cup {i}]))
extract_properties(psets) == PsetWalk(psets, 1, [sets |-> {}, props |-> {}, warnings |-> 0])

\* _extract_element_data of one element: the record with its properties.
extract_element_data(gid, psets) ==
    [globalId |-> gid, properties |-> [sets |-> extract_properties(psets).sets,
                                       props |-> extract_properties(psets).props]]

Parsed(kind, source, out) ==
    [kind |-> kind, source |-> source, records |-> out.records, warnings |-> out.warnings]

ExtractElements ==
    /\ parsed = NoParse
    /\ \E src \in ElementSources : parsed' = Parsed("elements", src, extract_elements(src))
    /\ UNCHANGED <<backend, graph, conn, now, last, calls, pc, setup, args, ifc_files,
                   results, file_id, pos, counts, exitCode, faults, clean, imports, qtool, answer>>

ExtractRelationships ==
    /\ parsed = NoParse
    /\ \E src \in RelSources :
         parsed' = Parsed("relationships", src, extract_relationships(src))
    /\ UNCHANGED <<backend, graph, conn, now, last, calls, pc, setup, args, ifc_files,
                   results, file_id, pos, counts, exitCode, faults, clean, imports, qtool, answer>>

ExtractProperties ==
    /\ parsed = NoParse
    /\ \E gid \in GIDs, src \in PsetSources :
         parsed' = Parsed("properties", src,
                          [records |-> <<extract_element_data(gid, src)>>,
                           warnings |-> extract_properties(src).warnings])
    /\ UNCHANGED <<backend, graph, conn, now, last, calls, pc, setup, args, ifc_files,
                   results, file_id, pos, counts, exitCode, faults, clean, imports, qtool, answer>>

InitParse ==
    /\ backend \in Backends
    /\ graph = EmptyGraph /\ conn = "new" /\ now = 0 /\ last = NoCall /\ calls = 0
    /\ DriverIdle
    /\ parsed = NoParse /\ qtool = NoTool

NextParse ==
    \/ ExtractElements
    \/ ExtractRelationships
    \/ ExtractProperties

SpecParse == InitParse /\ [][NextParse]_vars

\* The global identifiers of the items whose extraction does not raise, in
\* the order the extraction meets them.
RECURSIVE NotRaising(_)
NotRaising(items) ==
    IF items = <<>> THEN <<>>
    ELSE (IF Head(items).kind = "raises" THEN <<>> ELSE <<Head(items).globalId>>)
            \o NotRaising(Tail(items))
RecordIds(records) == [i \in DOMAIN records |-> records[i].globalId]

\* C22: extract_elements and extract_relationships return one record for
\* every source item whose extraction does not raise, in the order the
\* items are met, and nothing for an item that raises.
C22_OneRecordPerItem ==
    /\ parsed.kind = "elements" => RecordIds(parsed.records) = NotRaising(parsed.source)
    /\ parsed.kind = "relationships"
         => RecordIds(parsed.records) = NotRaising(Iterated(parsed.source, 1))

\* C23: a malformed property structure met in an element's property sets is
\* not fatal: the element record is produced, and every well-formed property
\* of every property set of the element is in it.
C23_OtherPropertiesRetained ==
    parsed.kind = "properties"
      => /\ Len(parsed.records) = 1
         /\ \A i \in DOMAIN parsed.source :
              parsed.source[i].def = "pset"
                => /\ i \in parsed.records[1].properties.sets
                   /\ \A j \in DOMAIN parsed.source[i].props :
                        parsed.source[i].props[j] = "ok"
                          => <<i, j>> \in parsed.records[1].properties.props

\* C24: the graph is cleared only on request and confirmation. clear_database
\* is called in a run iff --clear-db was given and --force-clear was set or
\* the prompt was answered yes; an answer no goes on to the conversion with
\* the graph untouched, any other answer asks again, and a clear that fails
\* does not end the run.
C24_ClearOnlyOnConfirmation ==
    /\ [][Issued({"clear_database"})
            => /\ args.clear_db /\ (args.force_clear \/ answer = "yes")
               /\ pc = "clearing" /\ pc' = "converting" /\ exitCode' = exitCode]_vars
    /\ [][pc = "clearing" => Issued({"clear_database"})]_vars
    /\ [][pc = "connecting" /\ conn' = "open"
            => pc' = (IF ~args.clear_db THEN "converting"
                      ELSE IF args.force_clear THEN "clearing" ELSE "confirming")]_vars
    /\ [][pc = "confirming"
            => /\ answer' = "yes" => pc' = "clearing"
               /\ answer' = "no" => pc' = "converting" /\ graph' = graph /\ last' = last
               /\ answer' = "other" => pc' = "confirming" /\ graph' = graph]_vars
    /\ [](pc = "confirming" => args.clear_db /\ ~args.force_clear)
    /\ [](answer # "none" => args.clear_db /\ ~args.force_clear)
C24_Witness ==
    /\ pc = "converting" /\ answer = "yes" /\ exitCode = -1
    /\ last.op = "clear_database" /\ ~last.out.ok
    /\ graph # EmptyGraph /\ ifc_files # <<>>

\* ------------------------------------ SpecQuery: execute_query of a query tool
MaxRetries == 3     \* largest max_retries a caller passes (the default is 2)

\* str(e).lower() of an error raised by the query, by what the handler looks
\* for in it: one of the four keywords, or none of them.
Keywords == {"connection", "reset", "refused", "timeout"}
ErrorTexts == Keywords \cup {"syntax"}

\* "if any(keyword in error_msg.lower() ...)" and "if attempt < max_retries - 1":
\* connect() is called after this error.
ShouldReconnectAnyError(err, attempt, max_retries) == attempt < max_retries - 1
ShouldReconnect(err, attempt, max_retries) ==
    err \in Keywords /\ attempt < max_retries - 1

Returned(t, result, error) == [t EXCEPT !.state = "returned", !.result = result, !.error = error]
Logged(t, ev, out) == [t EXCEPT !.log = Append(@, [ev |-> ev, out |-> out])]

\* execute_query up to the first attempt: no driver (client) returns the
\* "Not connected" failure; range(max_retries) empty falls through to the
\* last return.
ExecuteQuery ==
    /\ qtool = NoTool
    /\ \E connected \in BOOLEAN, m \in 0..MaxRetries :
         qtool' = IF ~connected THEN Returned(NoTool, "failure", "Not connected to database")
                  ELSE IF m = 0
                  THEN Returned([NoTool EXCEPT !.max_retries = m], "failure",
                                "Query execution failed after all retry attempts")
                  ELSE [NoTool EXCEPT !.state = "running", !.max_retries = m]
    /\ UNCHANGED <<backend, graph, conn, now, last, calls, pc, setup, args, ifc_files,
                   results, file_id, pos, counts, exitCode, faults, clean, imports, parsed,
                   answer>>

\* One attempt: the query succeeds, or raises an error with the given text.
RunQuery ==
    /\ qtool.state = "running"
    /\ \E out \in {"ok"} \cup ErrorTexts :
         LET t == Logged(qtool, "run", out) IN
         qtool' = IF out = "ok" THEN Returned(t, "success", "none")
                  ELSE IF ShouldReconnect(out, qtool.attempt, qtool.max_retries)
                  THEN [t EXCEPT !.state = "reconnecting", !.error = out]
                  ELSE Returned(t, "failure", out)
    /\ UNCHANGED <<backend, graph, conn, now, last, calls, pc, setup, args, ifc_files,
                   results, file_id, pos, counts, exitCode, faults, clean, imports, parsed,
                   answer>>

\* "if self.connect(): continue", else the failure with the query's error.
Reconnect ==
    /\ qtool.state = "reconnecting"
    /\ \E okc \in BOOLEAN :
         LET t == Logged(qtool, "connect", okc) IN
         qtool' = IF okc THEN [t EXCEPT !.state = "running", !.attempt = @ + 1]
                  ELSE Returned(t, "failure", qtool.error)
    /\ UNCHANGED <<backend, graph, conn, now, last, calls, pc, setup, args, ifc_files,
                   results, file_id, pos, counts, exitCode, faults, clean, imports, parsed,
                   answer>>

InitQuery ==
    /\ backend \in Backends
    /\ graph = EmptyGraph /\ conn = "new" /\ now = 0 /\ last = NoCall /\ calls = 0
    /\ DriverIdle
    /\ parsed = NoParse /\ qtool = NoTool

NextQuery ==
    \/ ExecuteQuery
    \/ RunQuery
    \/ Reconnect

SpecQuery == InitQuery /\ [][NextQuery]_vars

\* The events of the call so far.
Runs(t) == {k \in DOMAIN t.log : t.log[k].ev = "run"}
Connects(t) == {k \in DOMAIN t.log : t.log[k].ev = "connect"}

\* C25: execute_query runs the query at most max_retries times; it calls
\* connect() only after a run that failed with a connection keyword in the
\* error text and only when an attempt remains; it runs the query again only
\* after a reconnect that succeeded; any other error, a failed reconnect or
\* a failure on the last attempt returns the failure result at once, and the
\* call ends with a success or failure result, never an exception.
C25_RetryProtocol ==
    /\ [](Cardinality(Runs(qtool)) <= qtool.max_retries)
    /\ [](\A k \in Connects(qtool) :
            /\ k > 1 /\ qtool.log[k - 1].ev = "run" /\ qtool.log[k - 1].out \in Keywords
            /\ Cardinality({j \in Runs(qtool) : j < k}) < qtool.max_retries)
    /\ [](\A k \in Runs(qtool) :
            k > 1 => qtool.log[k - 1].ev = "connect" /\ qtool.log[k - 1].out = TRUE)
    /\ [][qtool.state = "running" /\ qtool' # qtool
            => LET out == qtool'.log[Len(qtool'.log)].out IN
               /\ out = "ok" => qtool'.state = "returned" /\ qtool'.result = "success"
               /\ (out \in ErrorTexts \ Keywords
                     \/ (out \in Keywords /\ Cardinality(Runs(qtool')) = qtool.max_retries))
                    => /\ qtool'.state = "returned" /\ qtool'.result = "failure"
                       /\ qtool'.error = out]_vars
    /\ [][qtool.state = "reconnecting" /\ qtool' # qtool
            /\ qtool'.log[Len(qtool'.log)].out = FALSE
            => qtool'.state = "returned" /\ qtool'.result = "failure"]_vars
    /\ [](qtool.state = "returned" => qtool.result \in {"success", "failure"})
C25_Witness ==
    /\ qtool.state = "returned" /\ qtool.result = "success" /\ qtool.max_retries = 2
    /\ Cardinality(Runs(qtool)) = 2 /\ Cardinality(Connects(qtool)) = 1

\* C26: convert_file returns True iff its file-node write returned an
\* identifier, the file parsed and at least one element was extracted;
\* element and relationship writes that fail, all of them included, do not
\* change the result.
C26_SuccessCriterion ==
    /\ \A i \in DOMAIN imports :
          imports[i].ok <=> /\ imports[i].why # "file_node"
                            /\ FileOf(imports[i].file).state = "valid"
                            /\ FileOf(imports[i].file).elements # <<>>
    /\ \A k \in DOMAIN results : results[k].ok = ThisRun[k].ok
C26_Witness ==
    /\ pc = "closed" /\ ifc_files = <<"b.ifc">> /\ results[1].ok
    /\ graph.elems = {} /\ ~imports[Len(imports)].full

\* C27: main always returns 0, 1 or 130; no exception leaves it, at
\* whichever step it is raised (argument handling, logging setup, setup
\* checks, connection, clearing, conversion, statistics, close).
C27_MainAlwaysReturns ==
    /\ pc # "escaped"
    /\ pc \in {"exited", "closed", "interrupted"} => exitCode \in {0, 1, 130}

\* The edge's two ends are Element nodes of graph g.
Joined(g, e) == /\ \E n \in g.elems : NodeKey(n) = e.from
                /\ \E n \in g.elems : NodeKey(n) = e.to

\* C28: a relationship write creates and changes no node (the Element and
\* IFCFile nodes and the file edges are as before), every edge it adds joins
\* two Element nodes that were in the graph before the write, and no edge of
\* the graph is ever without one of its end nodes.
C28_RelationshipWritesNoNode ==
    /\ [][Issued({"create_relationship"})
            => /\ graph'.elems = graph.elems /\ graph'.files = graph.files
               /\ graph'.belongs = graph.belongs
               /\ \A e \in graph'.rels \ graph.rels : Joined(graph, e)]_vars
    /\ [](\A e \in graph.rels : Joined(graph, e))
C28_Witness ==
    /\ last.op = "create_relationship" /\ last.out.ok
    /\ last.arg.type = "CONTAINED_IN" /\ Len(last.arg.from_elements) = 2
    /\ Cardinality(last.out.created) = 1
    /\ Cardinality(graph.rels) >= 2

\* The edges of graph g of one type from one node to another.
Between(g, type, from, to) == {e \in g.rels : e.type = type /\ e.from = from /\ e.to = to}

\* C29: there is at most one edge of a type from one node to another; a
\* successful write of a record on a pair that already has an edge of the
\* record's type adds no edge and leaves the record's globalId on that edge.
C29_OneEdgePerPair ==
    /\ [](\A e \in graph.rels : Between(graph, e.type, e.from, e.to) = {e})
    /\ [][Issued({"create_relationship"}) /\ last'.out.ok
            => \A e \in graph.rels :
                  (e.type = last'.arg.type
                     /\ \E k \in last'.out.created : Pairs(last'.arg)[k] = EdgeIds(e))
                    => Between(graph', e.type, e.from, e.to)
                          = {[e EXCEPT !.rid = last'.arg.globalId]}]_vars
C29_Witness ==
    /\ last.op = "create_relationship" /\ last.out.ok /\ last.arg.globalId = "r3"
    /\ \E e \in graph.rels : e.type = "AGGREGATES" /\ e.rid = "r3"
    /\ Cardinality({e \in graph.rels : e.type = "AGGREGATES"}) = 1
    /\ Cardinality(graph.rels) = 2

\* The finished convert_file calls that failed at parsing or for want of
\* elements.
C30_Unparsed == {i \in DOMAIN imports : imports[i].why \in {"parse", "empty"}}

\* C30: when convert_file fails because the file does not parse or yields
\* no element, the file's IFCFile node has been written before and stays in
\* the graph, and no Element node and no edge is written for the file: the
\* failing step leaves the graph as the file-node write left it.
C30_FileNodeOfFailedParse ==
    /\ [][(pc = "parsing" /\ pc' = "converting"
             /\ imports'[Len(imports')].why \in {"parse", "empty"})
            => /\ graph' = graph /\ last' = last
               /\ last.op = "create_file_node" /\ last.arg = file_id /\ last.out.ok
               /\ \E f \in graph'.files : f.fileId = file_id /\ f.importDate = now
               /\ ~results'[Len(results')].ok]_vars
    /\ [](\A i \in C30_Unparsed :
            /\ \E f \in graph.files : f.fileId = FileOf(imports[i].file).fileId
            /\ \A n \in graph.elems : n.src # FileOf(imports[i].file).fileId
            /\ \A e \in graph.belongs : e.fileId # FileOf(imports[i].file).fileId)
C30_Witness ==
    /\ pc = "closed" /\ Len(results) = 2
    /\ ThisRun[1].why = "parse" /\ ThisRun[2].why = "empty"
    /\ Cardinality(graph.files) = 2 /\ graph.elems = {} /\ graph.rels = {}

=============================================================================
